---- MODULE Spec2Model ----
(***************************************************************************)
(* Token gateway: the per-audience token cache of internal/token/manager.go *)
(* and the request path of internal/proxy/server.go, as a state machine.    *)
(*                                                                          *)
(* Goroutines are the processes of Procs.  Each runs one call at a time: a  *)
(* Manager method called directly, or the proxy handler, which calls the    *)
(* Manager.  A call is split into steps at the points where the goroutine   *)
(* can block (a mutex acquisition, the identity provider's fetch, the       *)
(* upstream round trip); code between two such points runs as one step, so  *)
(* a critical section that never blocks is one step taken when its mutex is *)
(* free, and a mutex shows as held only while its holder can block.         *)
(*                                                                          *)
(* Time is counted in units of the refresh skew; the zero time.Time is 0    *)
(* and the clock starts at 1, so every clock reading is after the zero time.*)
(***************************************************************************)
EXTENDS Integers, Sequences, FiniteSets, TLC

\* ------------------------------------------------------------------ bounds
\* the last clock reading
MaxTime == 2
\* calls started in a run with the clock running
MaxCalls == 4
\* calls started in a burst
MaxBurst == 3
\* proxied requests started
MaxRequests == 2
\* proxied requests started, for each configuration
MaxGate == 3
\* proxied requests started, the upstream's bodies varying
MaxReplies == 2
\* proxied requests started, to two upstreams
MaxRoutes == 2
\* calls started while a snapshot is kept
MaxSnaps == 3
\* calls started under the scheduler's fairness
MaxLive == 2
\* the clock's last reading while requests wait for their upstream
MaxWait == 3
MaxStats == 3
\* length of the generated patterns and paths
MaxPathLen == 3

\* --------------------------------------------------------------- constants
Procs == {"g1", "g2", "g3"}
Servers == {"g1", "g2"}
Monitors == {"g3"}
Sequential == {"g1"}
Jwts == {"T1", "T2"}
\* the identity token with serial jwt minted by a token source created for
\* audience a (idtoken.NewTokenSource(ctx, audience), manager.go line 159)
Mint(a, jwt) == a \o "." \o jwt
JwtsFor(a) == {Mint(a, jwt) : jwt \in Jwts}
None == "none"

\* refreshBeforeExpiry, in model time units (the configured skew is two units,
\* so that a clock reading can fall strictly inside the skew window)
refreshBeforeExpiry == 2

\* TokenState
StateNew == "NEW"
StateCached == "CACHED"
StateRefreshed == "REFRESHED"
StateExpiring == "EXPIRING"
StateExpired == "EXPIRED"
StateRejected == "REJECTED"
StateError == "ERROR"
TokenStates ==
    {StateNew, StateCached, StateRefreshed, StateExpiring, StateExpired,
     StateRejected, StateError}

\* error messages of refreshToken
ErrCreateSource == "failed to create token source"
ErrGetToken == "failed to get token"
\* the error texts of the identity provider's client library
RawErrors == {"invalid_grant", "dial tcp: i/o timeout"}
\* fmt.Errorf(prefix + ": %w", err): the wrapped error's text
Errorf(prefix, raw) == prefix \o ": " \o raw
\* http.Error(w, fmt.Sprintf("Authentication error: %v", err), 500): the body
\* of the client's response, which http.Error ends with a newline
AuthenticationError(msg) == "Authentication error: " \o msg \o "\n"

\* http.StatusXxx
StatusOK == 200
StatusUnauthorized == 401
StatusForbidden == 403
StatusNotFound == 404
StatusInternalServerError == 500
StatusBadGateway == 502

\* config.Config: one upstream, and two upstreams; Timeout counts readings of
\* the clock
svcA ==
    [Name |-> "svcA", URL |-> "https://a.example/base", Audience |-> "audA",
     Host |-> "", Timeout |-> 1]
svcB ==
    [Name |-> "svcB", URL |-> "https://b.example", Audience |-> "audB",
     Host |-> "b.internal", Timeout |-> 1]
ConfigOne == [Upstreams |-> <<svcA>>, AllowedPaths |-> <<"/run_sse", "/apps/*">>]
ConfigTwo == [Upstreams |-> <<svcA, svcB>>, AllowedPaths |-> <<"/run_sse", "/apps/*">>]
\* no allowed_paths configured
ConfigOpen == [Upstreams |-> <<svcA, svcB>>, AllowedPaths |-> <<>>]
Configs == {ConfigOne, ConfigTwo, ConfigOpen}

\* the audiences of the configured upstreams
Audiences(cfg) == {cfg.Upstreams[i].Audience : i \in DOMAIN cfg.Upstreams}

\* inbound requests: r.URL.Path and the X-Target-Upstream header ("" = absent)
RequestPaths == {"/run_sse", "/apps/x", "/inform"}
TargetHeaders == {"", "svcA", "svcB"}
\* what an upstream may answer
UpstreamStatuses ==
    {StatusOK, StatusUnauthorized, StatusForbidden, StatusInternalServerError}

VARIABLES
    config,     \* Server.config: the upstreams and the allow-list, fixed at start
    cache,      \* Manager.cache: audience -> TokenEntry (metadata, tokenSource, mu)
    cacheMu,    \* Manager.cacheMu: [w: holder of the write lock, r: read-lock holders]
    now,        \* the wall clock read by time.Now()
    pc,         \* per goroutine: position in its current call
    op,         \* per goroutine: the call it is running
    aud,        \* per goroutine: the audience the call works on
    local,      \* per goroutine: the call's local value (token, result, stats)
    todo,       \* per goroutine: audiences a range loop over the cache has left
    out,        \* what the call that returned in the last step returned
    calls,      \* number of calls started (bounds the run)
    hist,       \* per audience: what happened since the last successful GetToken
    held        \* the *TokenMetadata a caller of GetMetadata has kept

vars ==
    <<config, cache, cacheMu, now, pc, op, aud, local, todo, out, calls, hist,
      held>>

\* ------------------------------------------------------------ TokenEntry
\* TokenEntry as GetToken creates it: metadata {Audience, State: NEW, IssuedAt: now},
\* every other field the zero value, tokenSource nil, mu unlocked.
NewTokenEntry(a, t) ==
    [Audience |-> a, State |-> StateNew, Token |-> "", IssuedAt |-> t,
     ExpiresAt |-> 0, LastUsed |-> 0, RefreshCount |-> 0, RejectedCount |-> 0,
     ErrorCount |-> 0, LastError |-> "", tokenSource |-> FALSE,
     muW |-> None, muR |-> {}]

\* *entry.metadata: the TokenMetadata value a snapshot copies
Metadata(e) ==
    [Audience |-> e.Audience, State |-> e.State, Token |-> e.Token,
     IssuedAt |-> e.IssuedAt, ExpiresAt |-> e.ExpiresAt, LastUsed |-> e.LastUsed,
     RefreshCount |-> e.RefreshCount, RejectedCount |-> e.RejectedCount,
     ErrorCount |-> e.ErrorCount, LastError |-> e.LastError]


\* variant for C1: a Lock() that never waits
CanLockUnguarded(w, r) == TRUE

\* sync.RWMutex: Lock() succeeds when nobody holds the mutex
CanLock(w, r) == w = None /\ r = {}

\* variant for C35: an RLock() that never waits
CanRLockUnguarded(w, r) == TRUE

\* sync.RWMutex: RLock() succeeds when no writer holds the mutex
CanRLock(w, r) == w = None


\* variant for C14: the expiring-soon branch without the write of EXPIRING
shouldRefreshNoExpiring(e, t) ==
    IF e.State = StateNew THEN [entry |-> e, refresh |-> TRUE]
    ELSE IF ~e.tokenSource THEN [entry |-> e, refresh |-> TRUE]
    ELSE IF t > e.ExpiresAt
        THEN [entry |-> [e EXCEPT !.State = StateExpired], refresh |-> TRUE]
    ELSE IF t + refreshBeforeExpiry > e.ExpiresAt
        THEN [entry |-> e, refresh |-> TRUE]
    ELSE [entry |-> e, refresh |-> FALSE]

\* variant for C17: no expired branch, a refresh only inside the skew window
shouldRefreshWindowOnly(e, t) ==
    IF e.State = StateNew THEN [entry |-> e, refresh |-> TRUE]
    ELSE IF ~e.tokenSource THEN [entry |-> e, refresh |-> TRUE]
    ELSE IF t + refreshBeforeExpiry > e.ExpiresAt /\ t < e.ExpiresAt
        THEN [entry |-> [e EXCEPT !.State = StateExpiring], refresh |-> TRUE]
    ELSE [entry |-> e, refresh |-> FALSE]

\* variant for C2: the expiring-soon comparison the wrong way round, so that a
\* token far from its expiry is refreshed
shouldRefreshInverted(e, t) ==
    IF e.State = StateNew THEN [entry |-> e, refresh |-> TRUE]
    ELSE IF ~e.tokenSource THEN [entry |-> e, refresh |-> TRUE]
    ELSE IF t > e.ExpiresAt
        THEN [entry |-> [e EXCEPT !.State = StateExpired], refresh |-> TRUE]
    ELSE IF t + refreshBeforeExpiry < e.ExpiresAt
        THEN [entry |-> [e EXCEPT !.State = StateExpiring], refresh |-> TRUE]
    ELSE [entry |-> e, refresh |-> FALSE]

\* variant for C37: an entry that has a token source is never refreshed
shouldRefreshTrustSource(e, t) ==
    IF e.State = StateNew THEN [entry |-> e, refresh |-> TRUE]
    ELSE IF ~e.tokenSource THEN [entry |-> e, refresh |-> TRUE]
    ELSE [entry |-> e, refresh |-> FALSE]

\* shouldRefresh(entry) at clock reading t: the entry as the function leaves it
\* (it writes State on the expiry branches) and the boolean it returns.
\* time.Time.After is strict.
shouldRefresh(e, t) ==
    IF e.State = StateNew THEN [entry |-> e, refresh |-> TRUE]
    ELSE IF ~e.tokenSource THEN [entry |-> e, refresh |-> TRUE]
    ELSE IF t > e.ExpiresAt
        THEN [entry |-> [e EXCEPT !.State = StateExpired], refresh |-> TRUE]
    ELSE IF t + refreshBeforeExpiry > e.ExpiresAt
        THEN [entry |-> [e EXCEPT !.State = StateExpiring], refresh |-> TRUE]
    ELSE [entry |-> e, refresh |-> FALSE]

\* refreshToken lines 159-166: the token source is created when there is none
refreshTokenSource(e) == [e EXCEPT !.tokenSource = TRUE]


\* variant for C12: every successful mint ends in CACHED
refreshTokenUpdateAlwaysCached(e, jwt, expiry) ==
    [e EXCEPT !.Token = jwt, !.ExpiresAt = expiry,
              !.RefreshCount = e.RefreshCount + 1, !.LastError = "",
              !.State = StateCached]

\* variant for C9: the update without the assignment of meta.Token
refreshTokenUpdateNoToken(e, jwt, expiry) ==
    [e EXCEPT !.ExpiresAt = expiry,
              !.RefreshCount = e.RefreshCount + 1, !.LastError = "",
              !.State = IF e.State = StateNew THEN StateCached ELSE StateRefreshed]

\* variant for C39: the first successful mint ends in CACHED whatever the
\* state before it
refreshTokenUpdateCachedOnFirst(e, jwt, expiry) ==
    [e EXCEPT !.Token = jwt, !.ExpiresAt = expiry,
              !.RefreshCount = e.RefreshCount + 1, !.LastError = "",
              !.State = IF e.RefreshCount = 0 THEN StateCached
                        ELSE StateRefreshed]

\* variant for C38: a mint from an entry that is not NEW leaves State as
\* shouldRefresh set it
refreshTokenUpdateKeepState(e, jwt, expiry) ==
    [e EXCEPT !.Token = jwt, !.ExpiresAt = expiry,
              !.RefreshCount = e.RefreshCount + 1, !.LastError = "",
              !.State = IF e.State = StateNew THEN StateCached ELSE e.State]

\* refreshToken after tokenSource.Token() returned (jwt, expiry): lines 175-198
refreshTokenUpdate(e, jwt, expiry) ==
    [e EXCEPT !.Token = jwt, !.ExpiresAt = expiry,
              !.RefreshCount = e.RefreshCount + 1, !.LastError = "",
              !.State = IF e.State = StateNew THEN StateCached ELSE StateRefreshed]


\* variant for C29: GetToken returns without releasing the entry lock
UnlockNever(e) == e

\* GetToken line 86, defer entry.mu.Unlock(): the entry lock is released
\* when GetToken returns, whichever return it takes
Unlock(e) == [e EXCEPT !.muW = None]

\* variant for C33: the error path leaves a REJECTED entry REJECTED
GetTokenErrorKeepRejected(e, msg) ==
    [e EXCEPT !.State = IF e.State = StateRejected THEN StateRejected
                        ELSE StateError,
              !.ErrorCount = e.ErrorCount + 1, !.LastError = msg]

\* variant for C20: the error path without the write of ERROR
GetTokenErrorKeepState(e, msg) ==
    [e EXCEPT !.ErrorCount = e.ErrorCount + 1, !.LastError = msg]

\* variant for C8: the error path also discards the cached token
GetTokenErrorDropToken(e, msg) ==
    [e EXCEPT !.State = StateError, !.ErrorCount = e.ErrorCount + 1,
              !.LastError = msg, !.Token = ""]

\* GetToken when refreshToken returned an error: lines 91-98
GetTokenError(e, msg) ==
    [e EXCEPT !.State = StateError, !.ErrorCount = e.ErrorCount + 1,
              !.LastError = msg]

\* variant for C40: the use also stamps IssuedAt
GetTokenUseStampIssued(e, t) == [e EXCEPT !.LastUsed = t, !.IssuedAt = t]

\* variant for C13: the use also marks the entry CACHED
GetTokenUseMarkCached(e, t) == [e EXCEPT !.LastUsed = t, !.State = StateCached]

\* GetToken's tail, lines 103-111: record the use
GetTokenUse(e, t) == [e EXCEPT !.LastUsed = t]


\* variant for C32: the rejection also clears the last error
MarkRejectedUpdateClearError(e) ==
    [e EXCEPT !.State = StateRejected, !.RejectedCount = e.RejectedCount + 1,
              !.tokenSource = FALSE, !.LastError = ""]

\* variant for C11: the rejection also resets the refresh counter
MarkRejectedUpdateResetCount(e) ==
    [e EXCEPT !.State = StateRejected, !.RejectedCount = e.RejectedCount + 1,
              !.tokenSource = FALSE, !.RefreshCount = 0]

\* variant for C5: the rejection without entry.tokenSource = nil
MarkRejectedUpdateKeepSource(e) ==
    [e EXCEPT !.State = StateRejected, !.RejectedCount = e.RejectedCount + 1]

\* variant for C10: the rejection also discards the cached token
MarkRejectedUpdateClearToken(e) ==
    [e EXCEPT !.State = StateRejected, !.RejectedCount = e.RejectedCount + 1,
              !.tokenSource = FALSE, !.Token = ""]

\* MarkRejected's body under the entry lock: lines 214-222
MarkRejectedUpdate(e) ==
    [e EXCEPT !.State = StateRejected, !.RejectedCount = e.RejectedCount + 1,
              !.tokenSource = FALSE]

\* what the identity provider may answer at clock reading t: any jwt, with an
\* expiry already past, at t, inside the skew window, at t + skew, or beyond
\* t + skew
Expiries(t) ==
    {t - 1, t, t + 1, t + refreshBeforeExpiry, t + refreshBeforeExpiry + 1}

\* GetStats' loop body, lines 277-298: one entry added to the running Stats
StatsAdd(s, m) ==
    [TotalCached |-> s.TotalCached + 1,
     TotalRefreshed |-> s.TotalRefreshed + m.RefreshCount,
     TotalRejected |-> s.TotalRejected + m.RejectedCount,
     TotalErrors |-> s.TotalErrors + m.ErrorCount,
     OldestToken |-> IF s.TotalCached = 0 \/ m.IssuedAt < s.OldestToken
                     THEN m.IssuedAt ELSE s.OldestToken,
     NewestToken |-> IF s.TotalCached = 0 \/ m.IssuedAt > s.NewestToken
                     THEN m.IssuedAt ELSE s.NewestToken]

\* Stats{}
NoStats ==
    [TotalCached |-> 0, TotalRefreshed |-> 0, TotalRejected |-> 0,
     TotalErrors |-> 0, OldestToken |-> 0, NewestToken |-> 0]

\* ---------------------------------------------------------------- router
HasPrefix(s, prefix) ==
    Len(s) >= Len(prefix) /\ SubSeq(s, 1, Len(prefix)) = prefix

HasSuffix(s, suffix) ==
    Len(s) >= Len(suffix) /\ SubSeq(s, Len(s) - Len(suffix) + 1, Len(s)) = suffix

TrimSuffix(s, suffix) ==
    IF HasSuffix(s, suffix) THEN SubSeq(s, 1, Len(s) - Len(suffix)) ELSE s

\* variant for C25: a wildcard pattern does not match its bare prefix
matchPathBelowOnly(pattern, path) ==
    IF pattern = path THEN TRUE
    ELSE IF HasSuffix(pattern, "/*")
        THEN LET prefix == TrimSuffix(pattern, "/*")
             IN HasPrefix(path, prefix \o "/")
    ELSE IF HasSuffix(pattern, "/**")
        THEN LET prefix == TrimSuffix(pattern, "/**")
             IN HasPrefix(path, prefix \o "/")
    ELSE FALSE

\* matchPath(pattern, path)
matchPath(pattern, path) ==
    IF pattern = path THEN TRUE
    ELSE IF HasSuffix(pattern, "/*")
        THEN LET prefix == TrimSuffix(pattern, "/*")
             IN HasPrefix(path, prefix \o "/") \/ path = prefix
    ELSE IF HasSuffix(pattern, "/**")
        THEN LET prefix == TrimSuffix(pattern, "/**")
             IN HasPrefix(path, prefix \o "/") \/ path = prefix
    ELSE FALSE

\* variant for C18: an empty allow-list admits nothing
isPathAllowedStrict(cfg, path) ==
    \E i \in DOMAIN cfg.AllowedPaths : matchPath(cfg.AllowedPaths[i], path)

\* Server.isPathAllowed(path)
isPathAllowed(cfg, path) ==
    \/ Len(cfg.AllowedPaths) = 0
    \/ \E i \in DOMAIN cfg.AllowedPaths : matchPath(cfg.AllowedPaths[i], path)

\* a nil *config.UpstreamConfig
NilUpstream ==
    [Name |-> None, URL |-> "", Audience |-> None, Host |-> "", Timeout |-> 0]

\* variant for C19: the header is ignored
determineUpstreamFirst(cfg, target) ==
    IF Len(cfg.Upstreams) > 0 THEN cfg.Upstreams[1] ELSE NilUpstream

\* Server.determineUpstream(r): the upstream named by X-Target-Upstream when
\* it is configured, else the first upstream, else nil
determineUpstream(cfg, target) ==
    IF target # "" /\ \E i \in DOMAIN cfg.Upstreams : cfg.Upstreams[i].Name = target
    THEN cfg.Upstreams[CHOOSE i \in DOMAIN cfg.Upstreams :
                           cfg.Upstreams[i].Name = target]
    ELSE IF Len(cfg.Upstreams) > 0 THEN cfg.Upstreams[1]
    ELSE NilUpstream

\* variant for C26: the two slashes are not collapsed
singleJoiningSlashNoCollapse(a, b) ==
    LET aslash == HasSuffix(a, "/")
        bslash == HasPrefix(b, "/")
    IN IF ~aslash /\ ~bslash THEN a \o "/" \o b
       ELSE a \o b

\* singleJoiningSlash(a, b)
singleJoiningSlash(a, b) ==
    LET aslash == HasSuffix(a, "/")
        bslash == HasPrefix(b, "/")
    IN IF aslash /\ bslash THEN a \o SubSeq(b, 2, Len(b))
       ELSE IF ~aslash /\ ~bslash THEN a \o "/" \o b
       ELSE a \o b

\* ------------------------------------------------------------------ Init
\* hist[a].rejected: a MarkRejected(a) took effect and no GetToken(a) has returned a
\* token since; hist[a].last: how the last call that changed the entry ended;
\* hist[a].jwt: the jwt tokenSource.Token() produced at the last successful mint
NoHist == [rejected |-> FALSE, last |-> "none", jwt |-> ""]
NoOut == [op |-> None]

\* a nil *TokenMetadata
NilSnapshot == [ref |-> FALSE, aud |-> None, val |-> None]

\* variant for C27: GetMetadata returns entry.metadata itself
SnapshotAlias(e) == [ref |-> TRUE, aud |-> e.Audience, val |-> Metadata(e)]

\* GetMetadata lines 239-240, meta := *entry.metadata; return &meta: a pointer
\* to a copy of the metadata, not to the entry's own
Snapshot(e) == [ref |-> FALSE, aud |-> e.Audience, val |-> Metadata(e)]

\* what a read through the pointer s sees when the cache is c
Deref(s, c) == IF s.ref THEN Metadata(c[s.aud]) ELSE s.val

\* NewServer(cfg) and NewManager: the server holds cfg, the cache is empty
InitWith(cfg) ==
    /\ config = cfg
    /\ cache = <<>>
    /\ cacheMu = [w |-> None, r |-> {}]
    /\ now = 1
    /\ pc = [p \in Procs |-> "idle"]
    /\ op = [p \in Procs |-> None]
    /\ aud = [p \in Procs |-> None]
    /\ local = [p \in Procs |-> None]
    /\ todo = [p \in Procs |-> {}]
    /\ out = NoOut
    /\ calls = 0
    /\ hist = [a \in Audiences(ConfigTwo) |-> NoHist]
    /\ held = NilSnapshot

Init == InitWith(ConfigOne)

\* the clock advances
TickTo(limit) ==
    /\ now < limit
    /\ now' = now + 1
    /\ out' = NoOut
    /\ UNCHANGED <<config, cache, cacheMu, pc, op, aud, local, todo, calls, hist,
                   held>>

Tick == TickTo(MaxTime)

\* a goroutine starts call o on audience a at position first with the local
\* value l, when fewer than limit calls were started
BeginWith(p, o, a, first, limit, l, v) ==
    /\ pc[p] = "idle"
    /\ calls < limit
    /\ calls' = calls + 1
    /\ pc' = [pc EXCEPT ![p] = first]
    /\ op' = [op EXCEPT ![p] = o]
    /\ aud' = [aud EXCEPT ![p] = a]
    /\ local' = [local EXCEPT ![p] = l]
    /\ out' = v
    /\ UNCHANGED <<cache, cacheMu, config, now, held, todo, hist>>

Begin(p, o, a, first, limit) == BeginWith(p, o, a, first, limit, None, NoOut)

\* the goroutine's call is over: it returns v
Return(p, v) ==
    /\ pc' = [pc EXCEPT ![p] = "idle"]
    /\ op' = [op EXCEPT ![p] = None]
    /\ aud' = [aud EXCEPT ![p] = None]
    /\ local' = [local EXCEPT ![p] = None]
    /\ todo' = [todo EXCEPT ![p] = {}]
    /\ out' = v

\* ------------------------------------------------------------- GetToken
\* Manager.GetToken(audience) called directly
CallGetToken(p, cfg, limit) ==
    \E a \in Audiences(cfg) : Begin(p, "GetToken", a, "gt_cache", limit)

\* variant for C28: the lookup stores a new entry whether or not there is one
cacheInsertOverwrite(c, a, t) ==
    [x \in DOMAIN c \cup {a} |-> IF x = a THEN NewTokenEntry(a, t) ELSE c[x]]

\* lines 71-82: entry, exists := m.cache[audience]; a new entry is stored only
\* when there is none
cacheInsert(c, a, t) ==
    IF a \in DOMAIN c THEN c ELSE c @@ (a :> NewTokenEntry(a, t))

\* lines 70-83: m.cacheMu.Lock(), look the entry up, insert a new one on a
\* miss, m.cacheMu.Unlock()
GetTokenLookup(p) ==
    /\ pc[p] = "gt_cache"
    /\ CanLock(cacheMu.w, cacheMu.r)
    /\ cache' = cacheInsert(cache, aud[p], now)
    /\ pc' = [pc EXCEPT ![p] = "gt_entry"]
    /\ out' = NoOut
    /\ UNCHANGED <<cacheMu, config, now, held, op, aud, local, todo, calls, hist>>

\* variant for C23: the client's Authorization header is kept when there is
\* one
DirectorAuthorizationKeep(clientAuth, token) ==
    IF clientAuth = "" THEN "Bearer " \o token ELSE clientAuth

\* server.go Director, req.Header.Set("Authorization", "Bearer "+token): the
\* Authorization header of the outbound request, whatever the client sent
DirectorAuthorization(clientAuth, token) == "Bearer " \o token

\* GetToken returns (token, nil): to handleProxy, which goes on to forward
\* the request with the token, or to a direct caller
GetTokenReturn(p, a, token, minted, jwt) ==
    LET v == [op |-> "GetToken", aud |-> a, val |-> token, err |-> "",
              minted |-> minted, kind |-> "", body |-> "", status |-> 0]
    IN /\ IF op[p] = "handleProxy"
          THEN /\ pc' = [pc EXCEPT ![p] = "hp_forward"]
               /\ local' = [local EXCEPT
                            ![p] = [token |-> token, status |-> 0,
                                    clientAuth |-> local[p].auth,
                                    auth |-> DirectorAuthorization(
                                                 local[p].auth, token),
                                    sentAt |-> now]]
               /\ out' = v
               /\ UNCHANGED <<op, aud, todo>>
          ELSE Return(p, v)
       /\ hist' = [hist EXCEPT ![a] = [rejected |-> FALSE, last |-> "ok",
                                      jwt |-> jwt]]

\* GetToken returns ("", err): lines 91-98 and the deferred entry.mu.Unlock();
\* handleProxy answers 500 (server.go lines 301-308)
GetTokenFail(p, kind, raw) ==
    LET a == aud[p]
        msg == Errorf(kind, raw)
    IN /\ cache' = [cache EXCEPT
                      ![a] = Unlock(GetTokenError(cache[a], msg))]
       /\ Return(p, [op |-> "GetToken", aud |-> a, val |-> "", err |-> msg,
                     minted |-> FALSE, kind |-> kind,
                     body |-> IF op[p] = "handleProxy"
                              THEN AuthenticationError(msg) ELSE "",
                     status |-> IF op[p] = "handleProxy"
                                THEN StatusInternalServerError ELSE 0])
       /\ hist' = [hist EXCEPT ![a].last = "failed"]
       /\ UNCHANGED <<cacheMu, config, now, held, calls>>

\* lines 85-89 on a cache hit, then 103-111: entry.mu.Lock(), shouldRefresh is
\* false, the cached token is returned, entry.mu.Unlock()
GetTokenHit(p) ==
    /\ pc[p] = "gt_entry"
    /\ LET a == aud[p]
           r == shouldRefresh(cache[a], now)
       IN /\ CanLock(cache[a].muW, cache[a].muR)
          /\ ~r.refresh
          /\ cache' = [cache EXCEPT ![a] = GetTokenUse(r.entry, now)]
          /\ GetTokenReturn(p, a, r.entry.Token, FALSE, hist[a].jwt)
    /\ UNCHANGED <<cacheMu, config, now, held, calls>>

\* lines 85-89 and refreshToken lines 149-167 with a token source at hand or
\* created: entry.mu.Lock(), shouldRefresh is true, the goroutine goes on to
\* tokenSource.Token() holding the entry lock
GetTokenRefresh(p) ==
    /\ pc[p] = "gt_entry"
    /\ LET a == aud[p]
           r == shouldRefresh(cache[a], now)
       IN /\ CanLock(cache[a].muW, cache[a].muR)
          /\ r.refresh
          /\ cache' = [cache EXCEPT
                         ![a] = [refreshTokenSource(r.entry) EXCEPT !.muW = p]]
    /\ pc' = [pc EXCEPT ![p] = "rt_fetch"]
    /\ out' = NoOut
    /\ UNCHANGED <<cacheMu, config, now, held, op, aud, local, todo, calls, hist>>

\* lines 85-89 and refreshToken lines 159-164: entry.mu.Lock(), shouldRefresh
\* is true, there is no token source and idtoken.NewTokenSource fails
GetTokenSourceFailed(p) ==
    /\ pc[p] = "gt_entry"
    /\ LET a == aud[p]
           r == shouldRefresh(cache[a], now)
       IN /\ CanLock(cache[a].muW, cache[a].muR)
          /\ r.refresh
          /\ ~r.entry.tokenSource
          /\ \E raw \in RawErrors : GetTokenFail(p, ErrCreateSource, raw)

\* refreshToken lines 170-198, then GetToken lines 103-111: Token() succeeds
RefreshFetched(p) ==
    /\ pc[p] = "rt_fetch"
    /\ \E jwt \in JwtsFor(aud[p]), expiry \in Expiries(now) :
         LET a == aud[p]
             e == GetTokenUse(refreshTokenUpdate(cache[a], jwt, expiry), now)
         IN /\ cache' = [cache EXCEPT ![a] = Unlock(e)]
            /\ GetTokenReturn(p, a, e.Token, TRUE, jwt)
    /\ UNCHANGED <<cacheMu, config, now, held, calls>>

\* refreshToken lines 170-173: Token() fails
RefreshFetchFailed(p) ==
    /\ pc[p] = "rt_fetch"
    /\ \E raw \in RawErrors : GetTokenFail(p, ErrGetToken, raw)

GetToken(p) ==
    \/ GetTokenLookup(p)
    \/ GetTokenHit(p)
    \/ GetTokenRefresh(p)
    \/ GetTokenSourceFailed(p)
    \/ RefreshFetched(p)
    \/ RefreshFetchFailed(p)

\* --------------------------------------------------------- MarkRejected
\* Manager.MarkRejected(audience) called directly
CallMarkRejected(p, cfg, limit) ==
    \E a \in Audiences(cfg) : Begin(p, "MarkRejected", a, "mr_cache", limit)

\* MarkRejected returns; in handleProxy the upstream's 401/403 then goes to
\* the client
MarkRejectedReturn(p, found) ==
    Return(p, [op |-> "MarkRejected", aud |-> aud[p], found |-> found,
               status |-> IF op[p] = "handleProxy" THEN local[p].status ELSE 0,
               token |-> IF op[p] = "handleProxy" THEN local[p].token ELSE None,
               auth |-> IF op[p] = "handleProxy" THEN local[p].auth ELSE None,
               sent |-> IF op[p] = "handleProxy" THEN local[p].sent ELSE None,
               readErr |-> IF op[p] = "handleProxy" THEN local[p].readErr ELSE FALSE,
               body |-> IF op[p] = "handleProxy" THEN local[p].body ELSE None])

\* lines 203-209: m.cacheMu.RLock(), lookup, m.cacheMu.RUnlock(); MarkRejected
\* returns when there is no entry
MarkRejectedLookup(p) ==
    /\ pc[p] = "mr_cache"
    /\ CanRLock(cacheMu.w, cacheMu.r)
    /\ IF aud[p] \in DOMAIN cache
       THEN /\ pc' = [pc EXCEPT ![p] = "mr_entry"]
            /\ out' = NoOut
            /\ UNCHANGED <<op, aud, local, todo>>
       ELSE MarkRejectedReturn(p, FALSE)
    /\ UNCHANGED <<cache, cacheMu, config, now, held, calls, hist>>

\* lines 211-222: entry.mu.Lock(), the entry is marked, entry.mu.Unlock()
MarkRejectedApply(p) ==
    /\ pc[p] = "mr_entry"
    /\ LET a == aud[p]
       IN /\ CanLock(cache[a].muW, cache[a].muR)
          /\ cache' = [cache EXCEPT ![a] = MarkRejectedUpdate(cache[a])]
          /\ hist' = [hist EXCEPT ![a] = [@ EXCEPT !.rejected = TRUE,
                                                 !.last = "rejected"]]
    /\ MarkRejectedReturn(p, TRUE)
    /\ UNCHANGED <<cacheMu, config, now, held, calls>>

MarkRejected(p) ==
    \/ MarkRejectedLookup(p)
    \/ MarkRejectedApply(p)

\* ---------------------------------------------------------- handleProxy
\* server.go lines 263-300: the path gate and the upstream selection; the
\* request is answered 404, or GetToken(upstream.Audience) is called
handleProxyStart(p, cfg, limit, inputs) ==
    \E path \in inputs.paths, target \in inputs.targets,
       clientAuth \in inputs.auths :
      LET upstream == determineUpstream(cfg, target)
          v == [op |-> "handleProxyStart", path |-> path, target |-> target,
                upstream |-> upstream.Name, aud |-> upstream.Audience]
      IN IF ~isPathAllowed(cfg, path) \/ upstream = NilUpstream
         THEN /\ pc[p] = "idle"
              /\ calls < limit
              /\ calls' = calls + 1
              /\ out' = [v EXCEPT !.upstream = None, !.aud = None]
                           @@ [status |-> StatusNotFound]
              /\ UNCHANGED <<config, cache, cacheMu, now, held, pc, op, aud, local, todo, hist>>
         ELSE BeginWith(p, "handleProxy", upstream.Audience, "gt_cache", limit,
                        [auth |-> clientAuth], v @@ [status |-> 0])

\* server.go lines 387-395 and proxy.ServeHTTP: the round trip to the
\* upstream fails, ErrorHandler answers 502
handleProxyTransportError(p) ==
    /\ pc[p] = "hp_forward"
    /\ Return(p, [op |-> "handleProxy", aud |-> aud[p],
                  status |-> StatusBadGateway, token |-> local[p].token,
                  auth |-> local[p].auth])
    /\ UNCHANGED <<cache, cacheMu, config, now, held, calls, hist>>

\* variant for C21: every error status counts as a rejected token
IsAuthFailureAnyError(status) == status >= 400

\* ModifyResponse line 413: the statuses that mean the upstream rejected the
\* token
IsAuthFailure(status) == status = StatusUnauthorized \/ status = StatusForbidden

\* the bodies an upstream sends with a 401 or 403
UpstreamBodies == {"denied", "expired"}

\* the Authorization header of an inbound request: none, or the client's own
ClientAuths == {"", "Bearer client"}

\* inbound requests and upstream answers: any path and X-Target-Upstream
\* header, no Authorization header, one 401/403 body that is read whole
PlainInputs ==
    [paths |-> RequestPaths, targets |-> TargetHeaders, auths |-> {""},
     bodies |-> {"denied"}, readErrs |-> {FALSE}]

\* requests to the default upstream, any 401/403 body, read whole or not
ReplyInputs ==
    [paths |-> {"/run_sse"}, targets |-> {""}, auths |-> {""},
     bodies |-> UpstreamBodies, readErrs |-> BOOLEAN]

\* allowed requests naming their upstream, with or without an Authorization
\* header
RouteInputs ==
    [paths |-> {"/run_sse"}, targets |-> {"svcA", "svcB"}, auths |-> ClientAuths,
     bodies |-> {"denied"}, readErrs |-> {FALSE}]

\* what is left of a response body whose read failed: the bytes read are
\* dropped and the stream is at its error
BodyDrained == ""

\* variant for C22: the body read for the log is not put back
RestoreBodyNever(body, readErr) == BodyDrained

\* ModifyResponse lines 419-427: io.ReadAll(resp.Body) for the log, and the
\* bytes put back as the response body when the read succeeded
RestoreBody(body, readErr) == IF readErr THEN BodyDrained ELSE body

\* server.go lines 396-438: the upstream answers; on 401 and 403
\* ModifyResponse reads the body for the log, restores it and calls
\* MarkRejected(upstream.Audience); any other answer goes to the client
handleProxyResponse(p, inputs) ==
    /\ pc[p] = "hp_forward"
    /\ \E status \in UpstreamStatuses :
         IF IsAuthFailure(status)
         THEN /\ pc' = [pc EXCEPT ![p] = "mr_cache"]
              /\ \E body \in inputs.bodies, readErr \in inputs.readErrs :
                   local' = [local EXCEPT
                               ![p] = [token |-> local[p].token,
                                       auth |-> local[p].auth,
                                       clientAuth |-> local[p].clientAuth,
                                       sentAt |-> local[p].sentAt,
                                       status |-> status,
                                       sent |-> body,
                                       readErr |-> readErr,
                                       body |-> RestoreBody(body, readErr)]]
              /\ out' = NoOut
              /\ UNCHANGED <<op, aud, todo>>
         ELSE Return(p, [op |-> "handleProxy", aud |-> aud[p],
                         status |-> status, token |-> local[p].token,
                         auth |-> local[p].auth])
    /\ UNCHANGED <<cache, cacheMu, config, now, held, calls, hist>>

handleProxy(p, cfg, limit, inputs) ==
    \/ handleProxyStart(p, cfg, limit, inputs)
    \/ handleProxyTransportError(p)
    \/ handleProxyResponse(p, inputs)

\* ---------------------------------------------------------- GetMetadata
\* Manager.GetMetadata(audience) called directly
CallGetMetadata(p, cfg, limit) ==
    \E a \in Audiences(cfg) : Begin(p, "GetMetadata", a, "gm_cache", limit)

\* lines 227-233: m.cacheMu.RLock(), lookup, m.cacheMu.RUnlock(); nil is
\* returned when there is no entry
GetMetadataLookup(p) ==
    /\ pc[p] = "gm_cache"
    /\ CanRLock(cacheMu.w, cacheMu.r)
    /\ IF aud[p] \in DOMAIN cache
       THEN /\ pc' = [pc EXCEPT ![p] = "gm_entry"]
            /\ out' = NoOut
            /\ UNCHANGED <<op, aud, local, todo>>
       ELSE Return(p, [op |-> "GetMetadata", aud |-> aud[p], found |-> FALSE,
                       snap |-> NilSnapshot])
    /\ UNCHANGED <<cache, cacheMu, config, now, held, calls, hist>>

\* lines 235-240: entry.mu.RLock(), the metadata is copied, entry.mu.RUnlock();
\* the caller keeps the returned pointer or drops it
GetMetadataCopy(p, keeps) ==
    /\ pc[p] = "gm_entry"
    /\ CanRLock(cache[aud[p]].muW, cache[aud[p]].muR)
    /\ LET snap == Snapshot(cache[aud[p]])
       IN /\ Return(p, [op |-> "GetMetadata", aud |-> aud[p], found |-> TRUE,
                        snap |-> snap])
          /\ \E keep \in keeps : held' = IF keep THEN snap ELSE held
    /\ UNCHANGED <<cache, cacheMu, config, now, calls, hist>>

GetMetadata(p, keeps) ==
    \/ GetMetadataLookup(p)
    \/ GetMetadataCopy(p, keeps)

\* ---------------------------------------- GetAllMetadata and GetStats
\* Manager.GetAllMetadata() and Manager.GetStats() called (by handleTokenInfo
\* and handleMetrics)
CallRange(p, limit) ==
    \E o \in {"GetAllMetadata", "GetStats"} : Begin(p, o, None, "ra_cache", limit)

\* the value the loop starts from: make(map) or Stats{}
RangeEmpty(o) == IF o = "GetStats" THEN NoStats ELSE <<>>

\* the loop body: the entry's metadata is added to the result
RangeAdd(o, acc, e) ==
    IF o = "GetStats" THEN StatsAdd(acc, Metadata(e))
    ELSE acc @@ (e.Audience :> Metadata(e))

\* lines 245-249 and 270-276: m.cacheMu.RLock(), kept until the call returns
\* (deferred RUnlock); the range loop picks its first entry, in any order.
\* An empty cache ends the call at once.
RangeStart(p) ==
    /\ pc[p] = "ra_cache"
    /\ CanRLock(cacheMu.w, cacheMu.r)
    /\ IF DOMAIN cache = {}
       THEN /\ Return(p, [op |-> op[p], val |-> RangeEmpty(op[p])])
            /\ UNCHANGED cacheMu
       ELSE /\ cacheMu' = [cacheMu EXCEPT !.r = @ \cup {p}]
            /\ \E a \in DOMAIN cache :
                 /\ aud' = [aud EXCEPT ![p] = a]
                 /\ todo' = [todo EXCEPT ![p] = DOMAIN cache \ {a}]
            /\ local' = [local EXCEPT ![p] = RangeEmpty(op[p])]
            /\ pc' = [pc EXCEPT ![p] = "ra_entry"]
            /\ out' = NoOut
            /\ UNCHANGED op
    /\ UNCHANGED <<cache, config, now, held, calls, hist>>

\* lines 250-253 and 277-298: entry.mu.RLock(), the entry is read,
\* entry.mu.RUnlock(); then the next entry, or the return with
\* m.cacheMu.RUnlock()
RangeEntry(p) ==
    /\ pc[p] = "ra_entry"
    /\ CanRLock(cache[aud[p]].muW, cache[aud[p]].muR)
    /\ LET acc == RangeAdd(op[p], local[p], cache[aud[p]])
       IN IF todo[p] = {}
          THEN /\ Return(p, [op |-> op[p], val |-> acc])
               /\ cacheMu' = [cacheMu EXCEPT !.r = @ \ {p}]
          ELSE /\ \E a \in todo[p] :
                    /\ aud' = [aud EXCEPT ![p] = a]
                    /\ todo' = [todo EXCEPT ![p] = @ \ {a}]
               /\ local' = [local EXCEPT ![p] = acc]
               /\ out' = NoOut
               /\ UNCHANGED <<pc, op, cacheMu>>
    /\ UNCHANGED <<cache, config, now, held, calls, hist>>

Range(p) ==
    \/ RangeStart(p)
    \/ RangeEntry(p)

\* ------------------------------------------------------- specifications
\* the Manager's methods called directly, one upstream, the clock running
Next ==
    \/ Tick
    \/ \E p \in Servers :
         \/ CallGetToken(p, config, MaxCalls)
         \/ CallMarkRejected(p, config, MaxCalls)
         \/ GetToken(p)
         \/ MarkRejected(p)

Spec == Init /\ [][Next]_vars

\* proxied requests, one upstream, the clock running
NextProxy ==
    \/ Tick
    \/ \E p \in Servers :
         \/ handleProxy(p, config, MaxRequests, PlainInputs)
         \/ GetToken(p)
         \/ MarkRejected(p)

SpecProxy == Init /\ [][NextProxy]_vars

\* two upstreams, a burst of calls within one clock reading: two goroutines
\* get tokens and reject them, a third reads the cache
NextBurst ==
    \/ \E p \in Servers :
         \/ CallGetToken(p, config, MaxBurst)
         \/ CallMarkRejected(p, config, MaxBurst)
         \/ GetToken(p)
         \/ MarkRejected(p)
    \/ \E p \in Monitors :
         \/ CallGetMetadata(p, config, MaxBurst)
         \/ CallRange(p, MaxBurst)
         \/ GetMetadata(p, {FALSE})
         \/ Range(p)

InitBurst == InitWith(ConfigTwo)

SpecBurst == InitBurst /\ [][NextBurst]_vars

\* proxied requests one after the other within one clock reading, the server
\* started with any of the configurations: one or two upstreams, with and
\* without an allow-list
NextGate ==
    \E p \in Sequential :
      \/ handleProxy(p, config, MaxGate, PlainInputs)
      \/ GetToken(p)
      \/ MarkRejected(p)

InitGate == \E cfg \in Configs : InitWith(cfg)

SpecGate == InitGate /\ [][NextGate]_vars

\* two concurrent proxied requests to the one upstream within one clock
\* reading, the upstream's 401/403 bodies varying
NextReply ==
    \E p \in Servers :
      \/ handleProxy(p, config, MaxReplies, ReplyInputs)
      \/ GetToken(p)
      \/ MarkRejected(p)

SpecReply == Init /\ [][NextReply]_vars

\* concurrent proxied requests to two upstreams within one clock reading,
\* the clients sending their own Authorization header or none
NextRoute ==
    \E p \in Servers :
      \/ handleProxy(p, config, MaxRoutes, RouteInputs)
      \/ GetToken(p)
      \/ MarkRejected(p)

SpecRoute == InitBurst /\ [][NextRoute]_vars

\* two upstreams, a burst of calls: two goroutines get tokens and reject
\* them, a third takes metadata snapshots and keeps some of them
NextSnap ==
    \/ \E p \in Servers :
         \/ CallGetToken(p, config, MaxSnaps)
         \/ CallMarkRejected(p, config, MaxSnaps)
         \/ GetToken(p)
         \/ MarkRejected(p)
    \/ \E p \in Monitors :
         \/ CallGetMetadata(p, config, MaxSnaps)
         \/ GetMetadata(p, BOOLEAN)

SpecSnap == InitBurst /\ [][NextSnap]_vars

\* the steps of goroutine p inside a call of the Manager
Run(p) ==
    \/ GetToken(p)
    \/ MarkRejected(p)
    \/ GetMetadata(p, {FALSE})
    \/ Range(p)

\* two upstreams, concurrent calls of every method of the Manager
NextLive ==
    \/ \E p \in Servers :
         \/ CallGetToken(p, config, MaxLive)
         \/ CallMarkRejected(p, config, MaxLive)
    \/ \E p \in Monitors :
         \/ CallGetMetadata(p, config, MaxLive)
         \/ CallRange(p, MaxLive)
    \/ \E p \in Procs : Run(p)

\* the scheduler's fairness: a goroutine that can take a step of its call
\* takes it in the end; this includes the return of fetch
SpecLive == InitBurst /\ [][NextLive]_vars /\ \A p \in Procs : WF_vars(Run(p))

\* proxied requests one after the other, one upstream, the clock running on
\* while a request waits for the upstream's answer
NextWait ==
    \/ TickTo(MaxWait)
    \/ \E p \in Sequential :
         \/ handleProxy(p, config, MaxRequests, ReplyInputs)
         \/ GetToken(p)
         \/ MarkRejected(p)

SpecWait == Init /\ [][NextWait]_vars

\* token calls and readings of the statistics one after the other, on two
\* upstreams, the clock running
NextStats ==
    \/ Tick
    \/ \E p \in Sequential :
         \/ CallGetToken(p, config, MaxStats)
         \/ CallMarkRejected(p, config, MaxStats)
         \/ CallRange(p, MaxStats)
         \/ GetToken(p)
         \/ MarkRejected(p)
         \/ Range(p)

SpecStats == InitBurst /\ [][NextStats]_vars

\* the strings of at most n characters over "/", "p" and "*"
RECURSIVE Strings(_)
Strings(n) ==
    IF n = 0 THEN {""}
    ELSE LET shorter == Strings(n - 1)
         IN shorter \cup {s \o c : s \in shorter, c \in {"/", "p", "*"}}

\* the patterns and paths of TestMatchPath and of the documentation, and all
\* short ones
Patterns ==
    {"/run_sse", "/apps", "/apps/*", "/apps/**", "/api/*", "/p/x/*", "/p/x/**"}
      \cup Strings(MaxPathLen)
Paths ==
    {"/run_sse", "/run_sse/other", "/apps", "/apps/", "/apps/foo",
     "/apps/foo/bar", "/apps/foo/bar/baz", "/other", "/inform", "/apps/test",
     "/p/x", "/p/x/y", "/p/x/y/z", "/p/q", "/p/xy"}
      \cup Strings(MaxPathLen)

\* target base paths and inbound paths
BasePaths == {"/a", "/a/", "/a//", "/base", "/base/"} \cup Strings(MaxPathLen)
InboundPaths == {"/x", "/b", "b", "//b", "/run_sse"} \cup Strings(MaxPathLen)

\* matchPath is applied to a pattern and a path, once
matchPathCall ==
    /\ out = NoOut
    /\ \E pattern \in Patterns, path \in Paths :
         out' = [op |-> "matchPath", pattern |-> pattern, path |-> path,
                 val |-> matchPath(pattern, path)]
    /\ UNCHANGED <<config, cache, cacheMu, now, held, pc, op, aud, local, todo,
                   calls, hist>>

\* singleJoiningSlash is applied to a base path and an inbound path, once
singleJoiningSlashCall ==
    /\ out = NoOut
    /\ \E a \in BasePaths, b \in InboundPaths :
         out' = [op |-> "singleJoiningSlash", a |-> a, b |-> b,
                 val |-> singleJoiningSlash(a, b)]
    /\ UNCHANGED <<config, cache, cacheMu, now, held, pc, op, aud, local, todo,
                   calls, hist>>

\* the router's pure functions applied to any of their inputs
NextPure ==
    \/ matchPathCall
    \/ singleJoiningSlashCall

SpecPure == Init /\ [][NextPure]_vars

\* ------------------------------------------------------------- properties
\* the goroutine is inside refreshToken for audience a (the token source is
\* at hand, tokenSource.Token() is outstanding)
Minting(p, a) == pc[p] = "rt_fetch" /\ aud[p] = a

\* the call of goroutine p returns in this step
Returns(p) == pc[p] # "idle" /\ pc'[p] = "idle"

\* C1: at any moment at most one mint is in progress for an audience, and the
\* goroutine that mints holds the entry lock, so mints for an audience never
\* overlap.
C1_OneMintAtATime ==
    \A a \in DOMAIN cache :
      /\ Cardinality({p \in Procs : Minting(p, a)}) <= 1
      /\ \A p \in Procs : Minting(p, a) => cache[a].muW = p

\* a mint is in progress while a second GetToken caller of the same audience
\* waits for the entry lock
C1_Witness ==
    \E p, q \in Procs :
      /\ p # q
      /\ pc[p] = "rt_fetch"
      /\ pc[q] = "gt_entry"
      /\ aud[p] = aud[q]

C3_NoCrossAudienceBlocking ==
    \A p \in Procs :
      pc[p] = "gt_cache" =>
        \A r \in cacheMu.r :
          LET h == cache[aud[r]].muW
          IN h = None \/ aud[h] = aud[p]

\* C4: after a MarkRejected on an audience, the next GetToken that returns a
\* token for it has incremented RefreshCount by 1 and leaves the state CACHED
\* or REFRESHED, also when GetToken calls failed in between.
C4_RemintAfterRejected ==
    [][\A a \in DOMAIN cache :
         (hist[a].rejected /\ out'.op = "GetToken" /\ out'.aud = a /\ out'.err = "")
         => /\ cache'[a].RefreshCount = cache[a].RefreshCount + 1
            /\ cache'[a].State \in {StateCached, StateRefreshed}]_vars

C6_RetryAfterFailure ==
    [][\A p \in Procs :
         (pc[p] = "gt_entry" /\ hist[aud[p]].last = "failed" /\ pc'[p] # "gt_entry")
         => \/ pc'[p] = "rt_fetch"
            \/ (out'.op = "GetToken" /\ out'.err # "")]_vars

\* C7: when the proxy calls MarkRejected for a 401/403, the jwt the upstream
\* rejected (the one the request carried) is the entry's current jwt.
C7_RejectedIsCurrent ==
    (out.op = "MarkRejected" /\ out.found /\ out.status # 0)
    => out.token = cache[out.aud].Token

\* C8: when the mint inside GetToken fails, the call returns the error and no
\* token, the state is ERROR, ErrorCount has grown by 1, LastError is the
\* failure message, and Token, ExpiresAt, RefreshCount, RejectedCount and
\* LastUsed are unchanged.
C8_MintFailure ==
    [][\A p \in Procs :
         (pc[p] \in {"gt_entry", "rt_fetch"} /\ Returns(p) /\ out'.err # "")
         => LET e == cache[aud[p]]
                f == cache'[aud[p]]
            IN /\ out'.op = "GetToken"
               /\ out'.val = ""
               /\ f.State = StateError
               /\ f.ErrorCount = e.ErrorCount + 1
               /\ f.LastError = out'.err
               /\ f.Token = e.Token
               /\ f.ExpiresAt = e.ExpiresAt
               /\ f.RefreshCount = e.RefreshCount
               /\ f.RejectedCount = e.RejectedCount
               /\ f.LastUsed = e.LastUsed]_vars

\* a GetToken has just failed on an entry that holds a token
C8_Witness ==
    /\ out.op = "GetToken"
    /\ out.err # ""
    /\ cache[out.aud].State = StateError
    /\ cache[out.aud].Token # ""
    /\ cache[out.aud].LastUsed # 0

\* C9: every entry whose state is CACHED, REFRESHED or EXPIRING has a
\* non-empty jwt.
C9_LiveStatesHaveToken ==
    \A a \in DOMAIN cache :
      cache[a].State \in {StateCached, StateRefreshed, StateExpiring}
      => cache[a].Token # ""

\* entries in each of the three states occur
C9_Witness ==
    \E a \in DOMAIN cache : cache[a].State = StateExpiring /\ cache[a].Token # ""

\* C10 as claimed: an entry whose state is NEW, EXPIRED, REJECTED or ERROR has
\* an empty jwt.
C10_DeadStatesHaveNoToken ==
    \A a \in DOMAIN cache :
      cache[a].State \in {StateNew, StateExpired, StateRejected, StateError}
      => cache[a].Token = ""

\* C10 amended: the jwt is non-empty exactly when the entry was minted at
\* least once; a NEW entry has an empty jwt, and EXPIRED, REJECTED and ERROR
\* entries keep the jwt of their last successful mint.
C10_TokenIffMinted ==
    \A a \in DOMAIN cache :
      /\ cache[a].State = StateNew => cache[a].Token = ""
      /\ cache[a].Token # "" <=> cache[a].RefreshCount >= 1

\* entries that were minted and then rejected, failed or expired hold a jwt
C10_Witness ==
    \E a \in DOMAIN cache :
      /\ cache[a].State \in {StateExpired, StateRejected, StateError}
      /\ cache[a].Token # ""

\* a mint for audience a succeeds in this step: tokenSource.Token() returned a
\* token and GetToken goes on to return it
MintSucceeds(a) ==
    \E p \in Procs : Minting(p, a) /\ pc'[p] # "rt_fetch" /\ out'.err = ""

C13_CacheHitFrame ==
    [][\A p \in Procs :
         LET e == cache[aud[p]]
         IN (/\ pc[p] = "gt_entry"
             /\ pc'[p] # "gt_entry"
             /\ e.State # StateNew
             /\ e.tokenSource
             /\ now + refreshBeforeExpiry < e.ExpiresAt)
            => /\ out'.op = "GetToken"
               /\ out'.err = ""
               /\ ~out'.minted
               /\ out'.val = e.Token
               /\ cache' = [cache EXCEPT ![aud[p]].LastUsed = now]]_vars

\* a cache hit at a later clock reading on an entry that was refreshed
C13_Witness ==
    /\ out.op = "GetToken"
    /\ out.err = ""
    /\ ~out.minted
    /\ cache[out.aud].State = StateRefreshed
    /\ cache[out.aud].LastUsed = now
    /\ cache[out.aud].IssuedAt < now

\* C14: a GetToken on a CACHED or REFRESHED entry with now strictly between
\* ExpiresAt - skew and ExpiresAt sets the state to EXPIRING and goes on to
\* mint in the same call; when the mint of an EXPIRING entry succeeds the
\* state is REFRESHED, RefreshCount has grown by 1 and the call returns the
\* jwt that mint stored.
C14_ExpiringThenRefreshed ==
    [][\A p \in Procs :
         LET e == cache[aud[p]]
             f == cache'[aud[p]]
         IN /\ (/\ pc[p] = "gt_entry"
                /\ pc'[p] # "gt_entry"
                /\ e.State \in {StateCached, StateRefreshed}
                /\ now < e.ExpiresAt
                /\ e.ExpiresAt < now + refreshBeforeExpiry)
               => /\ pc'[p] = "rt_fetch"
                  /\ f.State = StateExpiring
                  /\ f.Token = e.Token
                  /\ f.RefreshCount = e.RefreshCount
            /\ (/\ pc[p] = "rt_fetch"
                /\ e.State = StateExpiring
                /\ Returns(p)
                /\ out'.err = "")
               => /\ f.State = StateRefreshed
                  /\ f.RefreshCount = e.RefreshCount + 1
                  /\ out'.minted
                  /\ out'.val = f.Token
                  /\ out'.val \in JwtsFor(out'.aud)]_vars

\* a GetToken found its entry inside the skew window, marked it EXPIRING and
\* is minting
C14_Witness ==
    \E p \in Procs :
      /\ pc[p] = "rt_fetch"
      /\ cache[aud[p]].State = StateExpiring
      /\ cache[aud[p]].RefreshCount = 1
      /\ cache[aud[p]].RejectedCount = 0
      /\ cache[aud[p]].ErrorCount = 0
      /\ now < cache[aud[p]].ExpiresAt
      /\ cache[aud[p]].ExpiresAt < now + refreshBeforeExpiry

\* C15: shouldRefresh is true whenever now + skew >= ExpiresAt, also when
\* ExpiresAt is exactly now + skew.
C15_RefreshAtSkewBoundary ==
    \A a \in DOMAIN cache :
      now + refreshBeforeExpiry >= cache[a].ExpiresAt
      => shouldRefresh(cache[a], now).refresh

\* C16: for an entry that is not NEW and has its token source, shouldRefresh
\* sets the state to EXPIRED whenever now >= ExpiresAt, also when ExpiresAt
\* is exactly now.
C16_ExpiredAtBoundary ==
    \A a \in DOMAIN cache :
      (/\ cache[a].State # StateNew
       /\ cache[a].tokenSource
       /\ now >= cache[a].ExpiresAt)
      => shouldRefresh(cache[a], now).entry.State = StateExpired

\* C17: a mint that returns an expiry at or before now is recorded like any
\* other (the jwt and the expiry are stored, RefreshCount grows by 1, the
\* call returns that jwt without error), and a GetToken that finds a minted
\* entry with ExpiresAt <= now attempts a mint.
C17_StaleMintRecorded ==
    [][\A p \in Procs :
         LET e == cache[aud[p]]
             f == cache'[aud[p]]
         IN /\ (/\ pc[p] = "rt_fetch"
                /\ Returns(p)
                /\ out'.err = ""
                /\ f.ExpiresAt <= now)
               => /\ out'.minted
                  /\ out'.val \in JwtsFor(out'.aud)
                  /\ f.Token = out'.val
                  /\ f.RefreshCount = e.RefreshCount + 1
                  /\ f.State \in {StateCached, StateRefreshed}
            /\ (/\ pc[p] = "gt_entry"
                /\ pc'[p] # "gt_entry"
                /\ e.RefreshCount >= 1
                /\ e.ExpiresAt <= now)
               => \/ pc'[p] = "rt_fetch"
                  \/ (out'.op = "GetToken" /\ out'.kind = ErrCreateSource)]_vars

\* the last GetToken minted at this clock reading a token whose expiry is
\* not after it, and the next GetToken is minting again
C17_Witness ==
    \E p \in Procs :
      /\ pc[p] = "rt_fetch"
      /\ cache[aud[p]].RefreshCount >= 1
      /\ cache[aud[p]].RejectedCount = 0
      /\ cache[aud[p]].ErrorCount = 0
      /\ cache[aud[p]].LastUsed = now
      /\ cache[aud[p]].ExpiresAt <= now

\* C18: a proxied request is answered 404 exactly when the allow-list is not
\* empty and none of its patterns matches the path; that request calls no
\* GetToken, leaves the cache as it is and is not forwarded. With an empty
\* allow-list every request goes on to GetToken.
C18_PathGate ==
    [][out'.op = "handleProxyStart" =>
         LET allowed == config.AllowedPaths
             rejected == out'.status = StatusNotFound
         IN /\ rejected <=>
                 /\ Len(allowed) # 0
                 /\ \A i \in DOMAIN allowed : ~matchPath(allowed[i], out'.path)
            /\ rejected => (cache' = cache /\ pc' = pc /\ op' = op)
            /\ ~rejected => \E p \in Procs : pc[p] = "idle" /\ pc'[p] = "gt_cache"
            /\ Len(allowed) = 0 => ~rejected]_vars

\* a request has just been answered 404 by the gate while the cache holds an
\* entry
C18_Witness ==
    /\ out.op = "handleProxyStart"
    /\ out.status = StatusNotFound
    /\ DOMAIN cache # {}

\* C19: a request that passes the gate selects the upstream that
\* X-Target-Upstream names when that name is configured, and the first
\* configured upstream when the header is absent, empty or names no
\* configured upstream; with an upstream configured the selection never
\* comes out empty.
C19_UpstreamSelection ==
    (out.op = "handleProxyStart" /\ out.status # StatusNotFound)
    => LET ups == config.Upstreams
           named == {i \in DOMAIN ups : ups[i].Name = out.target}
       IN /\ out.upstream # None
          /\ (out.target # "" /\ named # {})
               => \E i \in named : /\ out.upstream = ups[i].Name
                                   /\ out.aud = ups[i].Audience
          /\ (out.target = "" \/ named = {})
               => /\ out.upstream = ups[1].Name
                  /\ out.aud = ups[1].Audience

\* the header has just selected the second upstream
C19_Witness ==
    /\ out.op = "handleProxyStart"
    /\ out.status # StatusNotFound
    /\ out.target = svcB.Name
    /\ out.upstream = svcB.Name

\* C20: when the GetToken that handleProxy called returns an error, the
\* request is answered 500 and is over without being forwarded, and the entry
\* of the audience is in state ERROR; when it returns a token the request
\* goes on to the upstream.
C20_TokenErrorIs500 ==
    [][\A p \in Procs :
         (/\ op[p] = "handleProxy"
          /\ pc[p] \in {"gt_entry", "rt_fetch"}
          /\ pc'[p] \notin {"gt_entry", "rt_fetch"})
         => /\ out'.op = "GetToken"
            /\ IF out'.err # ""
               THEN /\ pc'[p] = "idle"
                    /\ out'.status = StatusInternalServerError
                    /\ cache'[aud[p]].State = StateError
               ELSE pc'[p] = "hp_forward"]_vars

\* a proxied request has just been answered 500
C20_Witness ==
    /\ out.op = "GetToken"
    /\ out.err # ""
    /\ out.status = StatusInternalServerError
    /\ cache[out.aud].State = StateError

\* C21: the response handling of a proxied request calls MarkRejected exactly
\* when the upstream answered 401 or 403; every other upstream status, and a
\* transport error (answered 502), ends the request with the cache left as it
\* is.
C21_RejectOnlyOnAuthFailure ==
    [][\A p \in Procs :
         /\ (pc[p] = "hp_forward" /\ pc'[p] # "hp_forward")
            => /\ cache' = cache
               /\ IF pc'[p] = "mr_cache"
                  THEN local'[p].status \in {StatusUnauthorized, StatusForbidden}
                  ELSE /\ pc'[p] = "idle"
                       /\ out'.op = "handleProxy"
                       /\ out'.status \notin {StatusUnauthorized, StatusForbidden}
         /\ (op[p] = "handleProxy" /\ pc[p] \in {"mr_cache", "mr_entry"})
            => local[p].status \in {StatusUnauthorized, StatusForbidden}]_vars

\* a proxied request has just ended in a transport error, its entry untouched
C21_Witness ==
    /\ out.op = "handleProxy"
    /\ out.status = StatusBadGateway
    /\ cache[out.aud].State \in {StateCached, StateRefreshed}
    /\ cache[out.aud].RejectedCount = 0

\* the position of a proxied request in handleProxy: it calls GetToken, sends
\* the request to the upstream, handles the response
Stage(position) ==
    CASE position = "gt_cache" -> 1
      [] position = "gt_entry" -> 2
      [] position = "rt_fetch" -> 3
      [] position = "hp_forward" -> 4
      [] position = "mr_cache" -> 5
      [] position = "mr_entry" -> 6
      [] OTHER -> 7

C23_BearerOfOwnAudience ==
    [][\A p \in Procs :
         /\ (pc[p] = "idle" /\ op'[p] = "handleProxy")
            => /\ out'.op = "handleProxyStart"
               /\ aud'[p] = determineUpstream(config, out'.target).Audience
         /\ (op[p] = "handleProxy" /\ pc[p] # "hp_forward"
               /\ pc'[p] = "hp_forward")
            => /\ out'.op = "GetToken"
               /\ out'.aud = aud[p]
               /\ out'.err = ""
               /\ local'[p].clientAuth = local[p].auth
               /\ local'[p].auth = "Bearer " \o out'.val
               /\ out'.val \in JwtsFor(aud[p])
               /\ \A b \in Audiences(config) \ {aud[p]} :
                    out'.val \notin JwtsFor(b)
         /\ (op[p] = "handleProxy" /\ pc[p] = "hp_forward")
            => /\ pc'[p] # "idle" => local'[p].auth = local[p].auth
               /\ pc'[p] = "idle" => out'.auth = local[p].auth]_vars

\* requests to both upstreams are being forwarded at the same time, one of
\* them from a client that sent its own Authorization header
C23_Witness ==
    \E p, q \in Procs :
      /\ pc[p] = "hp_forward"
      /\ pc[q] = "hp_forward"
      /\ aud[p] = "audA"
      /\ aud[q] = "audB"
      /\ local[p].clientAuth = "Bearer client"
      /\ local[p].auth \in {"Bearer " \o t : t \in JwtsFor("audA")}
      /\ local[q].auth \in {"Bearer " \o t : t \in JwtsFor("audB")}

\* C24: the client's response to a failed GetToken does not depend on the
\* identity provider's error text: whatever text the provider gave, the 500
\* body is the one that was sent.
C24_ResponseHidesProviderError ==
    (out.op = "GetToken" /\ out.status = StatusInternalServerError)
    => \A raw \in RawErrors :
         AuthenticationError(Errorf(out.kind, raw)) = out.body

\* the prefixes of a string
Prefixes(s) == {SubSeq(s, 1, k) : k \in 0..Len(s)}

\* the pattern is the prefix followed by "/*" or by "/**"
IsWildcardOf(pattern, prefix) ==
    pattern = prefix \o "/*" \/ pattern = prefix \o "/**"

\* C25: matchPath(pattern, path) is true exactly when pattern = path, or the
\* pattern is a prefix followed by "/*" or "/**" and the path is that prefix
\* or starts with prefix + "/". So a pattern without wildcard matches no
\* longer path, a wildcard matches its own prefix, and the "/*" and "/**"
\* forms of a prefix match the same paths.
C25_MatchPath ==
    out.op = "matchPath"
    => LET pattern == out.pattern
           path == out.path
       IN /\ out.val =
               (\/ pattern = path
                \/ \E prefix \in Prefixes(pattern) :
                     /\ IsWildcardOf(pattern, prefix)
                     /\ (path = prefix \/ HasPrefix(path, prefix \o "/")))
          /\ ((\A prefix \in Prefixes(pattern) : ~IsWildcardOf(pattern, prefix))
                /\ Len(path) > Len(pattern))
             => ~out.val
          /\ \A prefix \in Prefixes(pattern) :
               IsWildcardOf(pattern, prefix)
               => /\ matchPath(pattern, prefix)
                  /\ matchPath(prefix \o "/*", path)
                       = matchPath(prefix \o "/**", path)

\* a wildcard pattern has just matched its bare prefix
C25_Witness ==
    /\ out.op = "matchPath"
    /\ out.pattern = "/apps/*"
    /\ out.path = "/apps"
    /\ out.val

\* the string without its trailing slashes, without its leading slashes
RECURSIVE TrimRightSlashes(_)
TrimRightSlashes(s) ==
    IF HasSuffix(s, "/") THEN TrimRightSlashes(SubSeq(s, 1, Len(s) - 1)) ELSE s

RECURSIVE TrimLeftSlashes(_)
TrimLeftSlashes(s) ==
    IF HasPrefix(s, "/") THEN TrimLeftSlashes(SubSeq(s, 2, Len(s))) ELSE s

\* the three cases of the single-slash rule, and the four documented joins
SingleSlashRule(a, b, val) ==
    /\ (HasSuffix(a, "/") /\ HasPrefix(b, "/"))
       => val = SubSeq(a, 1, Len(a) - 1) \o b
    /\ (~HasSuffix(a, "/") /\ ~HasPrefix(b, "/")) => val = a \o "/" \o b
    /\ (HasSuffix(a, "/") # HasPrefix(b, "/")) => val = a \o b
    /\ (a = "/" /\ b = "/x") => val = "/x"
    /\ (a = "/a/" /\ b = "/b") => val = "/a/b"
    /\ (a = "/a" /\ b = "b") => val = "/a/b"
    /\ (a = "/a" /\ b = "/b") => val = "/a/b"

\* C26 as stated: the join follows the single-slash rule, and the junction of
\* a and b always holds exactly one slash: the result is a without its
\* trailing slashes, one slash, b without its leading slashes.
C26_JunctionHasOneSlash ==
    out.op = "singleJoiningSlash"
    => /\ SingleSlashRule(out.a, out.b, out.val)
       /\ out.val = TrimRightSlashes(out.a) \o "/" \o TrimLeftSlashes(out.b)

\* C26, amended: the join follows the single-slash rule, which takes at most
\* one slash from each side; the junction holds exactly one slash when a does
\* not end with "//" and b does not start with "//".
C26_SingleSlashRule ==
    out.op = "singleJoiningSlash"
    => /\ SingleSlashRule(out.a, out.b, out.val)
       /\ out.val = TrimSuffix(out.a, "/") \o "/"
                      \o (IF HasPrefix(out.b, "/")
                          THEN SubSeq(out.b, 2, Len(out.b)) ELSE out.b)
       /\ (~HasSuffix(out.a, "//") /\ ~HasPrefix(out.b, "//"))
          => out.val = TrimRightSlashes(out.a) \o "/" \o TrimLeftSlashes(out.b)

\* a base path ending with a slash has just been joined with an inbound path
\* starting with one
C26_Witness ==
    /\ out.op = "singleJoiningSlash"
    /\ out.a = "/a/"
    /\ out.b = "/b"
    /\ out.val = "/a/b"

\* C27: GetMetadata returns an immutable copy. A snapshot a caller keeps reads
\* the same whatever happens to the entry later; a snapshot holds the entry's
\* fields as they are when it is taken, taking it changes nothing; an entry's
\* fields change only in a step of a GetToken or MarkRejected on its audience.
\* So a snapshot taken while the entry still is as a kept one shows it equals
\* the kept one field by field.
C27_SnapshotIsCopy ==
    [][/\ (held.aud # None /\ held' = held)
          => Deref(held', cache') = Deref(held, cache)
       /\ \A a \in DOMAIN cache :
            Metadata(cache'[a]) # Metadata(cache[a])
            => \E p \in Procs :
                 /\ aud[p] = a
                 /\ op[p] \in {"GetToken", "MarkRejected"}
                 /\ pc'[p] # pc[p]
       /\ \A p \in Procs :
            (pc[p] = "gm_entry" /\ pc'[p] = "idle")
            => /\ out'.found
               /\ cache' = cache
               /\ Deref(out'.snap, cache') = Metadata(cache[aud[p]])
               /\ (held.aud = aud[p]
                     /\ Deref(held, cache) = Metadata(cache[aud[p]]))
                  => Deref(out'.snap, cache') = Deref(held, cache)]_vars

\* a kept snapshot of a CACHED entry still reads CACHED after the entry was
\* rejected
C27_Witness ==
    /\ held.aud = "audA"
    /\ Deref(held, cache).State = StateCached
    /\ Deref(held, cache).RejectedCount = 0
    /\ cache["audA"].State = StateRejected
    /\ cache["audA"].RejectedCount = 1

\* C28: an audience's entry stays the one first inserted. The cached
\* audiences only grow; only GetToken's lookup inserts, and a lookup that
\* finds an entry leaves the cache as it is, so first callers racing for an
\* audience all get the entry the first of them inserted; an entry's fields
\* change only in steps of calls on its audience, and the entry lock a
\* goroutine holds stays held by it through the other goroutines' steps.
C28_EntryStays ==
    [][/\ DOMAIN cache \subseteq DOMAIN cache'
       /\ \A a \in DOMAIN cache' \ DOMAIN cache :
            /\ \E p \in Procs :
                 pc[p] = "gt_cache" /\ aud[p] = a /\ pc'[p] = "gt_entry"
            /\ cache'[a] = NewTokenEntry(a, now)
       /\ \A p \in Procs :
            (pc[p] = "gt_cache" /\ pc'[p] = "gt_entry"
               /\ aud[p] \in DOMAIN cache)
            => cache' = cache
       /\ \A a \in DOMAIN cache :
            /\ cache'[a] # cache[a]
               => \E p \in Procs : aud[p] = a /\ pc'[p] # pc[p]
            /\ \A p \in Procs :
                 (cache[a].muW = p /\ pc'[p] = pc[p]) => cache'[a] = cache[a]]_vars

\* two first callers race for an audience: one mints on the entry it inserted,
\* the other has looked the same entry up and waits for its lock
C28_Witness ==
    \E p, q \in Procs :
      /\ p # q
      /\ aud[p] = "audB"
      /\ aud[q] = "audB"
      /\ pc[p] = "rt_fetch"
      /\ pc[q] = "gt_entry"
      /\ cache["audB"].State = StateNew
      /\ cache["audB"].muW = p

\* goroutine p holds the lock of audience a's entry
HoldsEntry(p, a) == cache[a].muW = p \/ p \in cache[a].muR

\* goroutine p can take its next step, with sync.RWMutex read as Go
\* implements it: a Lock needs the mutex free, an RLock needs no writer
\* holding it and no writer waiting for it
CanStep(p) ==
    LET cacheWriterWaits == \E q \in Procs : pc[q] = "gt_cache"
        entryWriterWaits(a) ==
            \E q \in Procs : pc[q] \in {"gt_entry", "mr_entry"} /\ aud[q] = a
        entryFree(a) == cache[a].muW = None /\ cache[a].muR = {}
    IN CASE pc[p] = "rt_fetch" -> TRUE
         [] pc[p] = "gt_cache" -> cacheMu.w = None /\ cacheMu.r = {}
         [] pc[p] \in {"gt_entry", "mr_entry"} -> entryFree(aud[p])
         [] pc[p] \in {"mr_cache", "gm_cache", "ra_cache"} ->
              cacheMu.w = None /\ ~cacheWriterWaits
         [] pc[p] \in {"gm_entry", "ra_entry"} ->
              cache[aud[p]].muW = None /\ ~entryWriterWaits(aud[p])
         [] OTHER -> FALSE

UpstreamFor(cfg, a) ==
    cfg.Upstreams[CHOOSE i \in DOMAIN cfg.Upstreams :
                    cfg.Upstreams[i].Audience = a]

\* C30: a proxied request is bounded by its upstream's configured timeout: no
\* request is still waiting for the upstream's answer after the timeout has
\* elapsed since the request was sent.
C30_UpstreamTimeout ==
    \A p \in Procs :
      pc[p] = "hp_forward"
      => now <= local[p].sentAt + UpstreamFor(config, aud[p]).Timeout

\* C31: every cache operation releases the cache lock before it acquires an
\* entry lock: a goroutine holding the cache lock is never at the acquisition
\* of an entry lock, and nobody holds the cache lock while a fetch is
\* outstanding.
C31_CacheLockReleasedFirst ==
    /\ \A p \in Procs :
         (cacheMu.w = p \/ p \in cacheMu.r)
         => pc[p] \notin {"gt_entry", "mr_entry", "gm_entry", "ra_entry",
                          "rt_fetch"}
    /\ (\E q \in Procs : pc[q] = "rt_fetch")
       => (cacheMu.w = None /\ cacheMu.r = {})

\* C32: MarkRejected on an existing entry sets State to REJECTED, adds exactly
\* 1 to RejectedCount and clears the token source; Token, ExpiresAt, IssuedAt,
\* LastUsed, RefreshCount, ErrorCount and LastError stay as they are, and the
\* call returns without minting. On a missing entry it changes nothing.
C32_MarkRejectedFrame ==
    [][\A p \in Procs :
         /\ (pc[p] = "mr_entry" /\ pc'[p] # "mr_entry")
            => LET e == cache[aud[p]]
                   f == cache'[aud[p]]
               IN /\ pc'[p] = "idle"
                  /\ out'.op = "MarkRejected"
                  /\ f.State = StateRejected
                  /\ f.RejectedCount = e.RejectedCount + 1
                  /\ ~f.tokenSource
                  /\ f.Token = e.Token
                  /\ f.ExpiresAt = e.ExpiresAt
                  /\ f.IssuedAt = e.IssuedAt
                  /\ f.LastUsed = e.LastUsed
                  /\ f.RefreshCount = e.RefreshCount
                  /\ f.ErrorCount = e.ErrorCount
                  /\ f.LastError = e.LastError
                  /\ \A b \in DOMAIN cache \ {aud[p]} : cache'[b] = cache[b]
         /\ (pc[p] = "mr_cache" /\ pc'[p] # "mr_cache")
            => /\ cache' = cache
               /\ pc'[p] = "idle" <=> aud[p] \notin DOMAIN cache]_vars

\* an entry that holds a token and the error of a failed refresh has just
\* been rejected
C32_Witness ==
    /\ out.op = "MarkRejected"
    /\ out.found
    /\ cache[out.aud].State = StateRejected
    /\ cache[out.aud].RejectedCount = 1
    /\ cache[out.aud].Token # ""
    /\ cache[out.aud].LastError # ""
    /\ cache[out.aud].RefreshCount = 1

\* C33: an entry that is REJECTED while no GetToken holds its lock has no
\* token source, whatever calls and mints came before.
C33_RejectedHasNoSource ==
    \A a \in DOMAIN cache :
      (cache[a].State = StateRejected /\ cache[a].muW = None)
      => ~cache[a].tokenSource

\* an entry rejected a second time, after a mint, a rejection and a failed
\* mint that had created a token source
C33_Witness ==
    \E a \in DOMAIN cache :
      /\ cache[a].State = StateRejected
      /\ cache[a].muW = None
      /\ cache[a].RejectedCount = 2
      /\ cache[a].RefreshCount = 1
      /\ cache[a].LastError = Errorf(ErrGetToken, "invalid_grant")
      /\ ~cache[a].tokenSource

\* C34: every entry that holds a jwt has ExpiresAt strictly after IssuedAt,
\* whatever expiry the provider returned.
C34_ExpiresAfterIssued ==
    \A a \in DOMAIN cache :
      cache[a].Token # "" => cache[a].ExpiresAt > cache[a].IssuedAt

\* the fields of an entry: its metadata and its token source
Fields(e) == [metadata |-> Metadata(e), tokenSource |-> e.tokenSource]

\* C35: every write to the fields of an entry that is in the map is made by
\* a call on its audience that holds the entry lock exclusively (it holds it
\* already, or takes it in this step with nobody else holding it), and every
\* read by GetMetadata, GetAllMetadata and GetStats is made while no writer
\* holds the entry lock, so a mint or rejection under way is never read.
C35_FieldsUnderEntryLock ==
    [][/\ \A a \in DOMAIN cache :
            Fields(cache'[a]) # Fields(cache[a])
            => \E p \in Procs :
                 /\ aud[p] = a
                 /\ pc'[p] # pc[p]
                 /\ pc[p] \in {"gt_entry", "rt_fetch", "mr_entry"}
                 /\ \/ cache[a].muW = p
                    \/ cache[a].muW = None /\ cache[a].muR = {}
       /\ \A p \in Procs :
            (pc[p] \in {"gm_entry", "ra_entry"}
               /\ (pc'[p] # pc[p] \/ todo'[p] # todo[p]))
            => /\ cache[aud[p]].muW = None
               /\ \A q \in Procs : ~Minting(q, aud[p])
               /\ cache' = cache]_vars

\* a reader waits at the lock of an entry whose first mint is under way: the
\* token source is stored, the token is not
C35_Witness ==
    \E p, q \in Procs :
      /\ pc[p] = "rt_fetch"
      /\ cache[aud[p]].muW = p
      /\ cache[aud[p]].tokenSource
      /\ cache[aud[p]].State = StateNew
      /\ pc[q] \in {"gm_entry", "ra_entry"}
      /\ aud[q] = aud[p]

\* C36: a GetToken that follows a MarkRejected on its audience never returns,
\* without a mint, the jwt the entry held when it was rejected.
C36_RejectedNeverReturned ==
    [][\A a \in DOMAIN cache :
         ~(/\ hist[a].rejected
           /\ out'.op = "GetToken"
           /\ out'.aud = a
           /\ out'.err = ""
           /\ ~out'.minted
           /\ out'.val = cache[a].Token)]_vars

\* C37: a GetToken that returns no error returns a non-empty jwt, the one the
\* provider produced at the last successful mint for the audience; an entry
\* that was never minted is never served.
C37_ReturnsLastMinted ==
    (out.op = "GetToken" /\ out.err = "")
    => /\ out.val # ""
       /\ out.val = hist[out.aud].jwt
       /\ cache[out.aud].RefreshCount >= 1

\* a cached jwt is served after a rejection and a failed mint came in between
C37_Witness ==
    /\ out.op = "GetToken"
    /\ out.err = ""
    /\ ~out.minted
    /\ out.val = hist[out.aud].jwt
    /\ cache[out.aud].ErrorCount >= 1
    /\ cache[out.aud].RefreshCount >= 1

\* the states shouldRefresh writes on its way to a mint
Transient == {StateExpiring, StateExpired}

\* C38: an entry whose lock is free is never in state EXPIRING or EXPIRED, and
\* no GetMetadata or GetAllMetadata result reports one of these states.
C38_NoTransientStateSeen ==
    /\ \A a \in DOMAIN cache :
         cache[a].muW = None => cache[a].State \notin Transient
    /\ (out.op = "GetMetadata" /\ out.found)
       => out.snap.val.State \notin Transient
    /\ out.op = "GetAllMetadata"
       => \A a \in DOMAIN out.val : out.val[a].State \notin Transient

\* a reader is waiting for an entry whose state is EXPIRING or EXPIRED while
\* its mint is under way
C38_Witness ==
    \E p, q \in Procs :
      /\ pc[p] = "rt_fetch"
      /\ cache[aud[p]].State \in Transient
      /\ cache[aud[p]].muW = p
      /\ pc[q] \in {"gm_entry", "ra_entry"}
      /\ aud[q] = aud[p]

IssueTimes == {cache[a].IssuedAt : a \in DOMAIN cache}

\* C40: IssuedAt is the clock reading at the entry's creation and no later
\* step changes it; the OldestToken and NewestToken of GetStats are the
\* smallest and the largest creation time of the cached entries.
C40_IssuedAtFixed ==
    [][/\ \A a \in DOMAIN cache' :
            cache'[a].IssuedAt = IF a \in DOMAIN cache THEN cache[a].IssuedAt
                                 ELSE now
       /\ (out'.op = "GetStats" /\ DOMAIN cache' # {})
          => /\ out'.val.OldestToken \in IssueTimes'
             /\ out'.val.NewestToken \in IssueTimes'
             /\ \A t \in IssueTimes' :
                  out'.val.OldestToken <= t /\ t <= out'.val.NewestToken]_vars

\* the statistics report the creation time of an entry that was minted again
\* at a later time
C40_Witness ==
    /\ out.op = "GetStats"
    /\ \E a \in DOMAIN cache :
         /\ cache[a].RefreshCount >= 2
         /\ cache[a].LastUsed > cache[a].IssuedAt
         /\ out.val.OldestToken = cache[a].IssuedAt
         /\ out.val.NewestToken = cache[a].IssuedAt
====
